---- MODULE Spec2Model ----
(***************************************************************************)
(* State-machine model of two classes of QuickQanava / QuickGeoGL:         *)
(*   - qgl::Arrow      (QuickGeoGL/src/qglArrow.cpp): a line with optional *)
(*                     cap polygons at its two ends;                       *)
(*   - qan::Node       (src/qanNode.h): the inline property setters.       *)
(* qreal values are exact rationals <<n, d>> (d > 0, lowest terms), so the *)
(* geometry is the mathematical one the double arithmetic approximates.    *)
(***************************************************************************)
EXTENDS Integers, Sequences, FiniteSets, TLC

VARIABLES
    arrow,      \* the qgl::Arrow: its members, inner line and cap items
    emitted,    \* the signals the last Arrow call emitted, in order
    last,       \* the last Arrow call: what updateGeometry did in it, and whether
                \* it was a guarded setter called with the stored value
    node,       \* the qan::Node: its members and its ItemAcceptsDrops flag
    styles,     \* the qan::NodeStyle objects of the application that exist
    nodeHist    \* the last Node call, the signal it emitted, and whether
                \* setAcceptDrops has been called since construction

vars == <<arrow, emitted, last, node, styles, nodeHist>>
arrowVars == <<arrow, emitted, last>>
nodeVars == <<node, styles, nodeHist>>

(***************************************************************************)
(* Bounds of the model.                                                    *)
(***************************************************************************)
\* cap size arguments are -1 .. MaxCapSize
MaxCapSize == 1
\* line width arguments are 0, 2 .. 2 * MaxHalfWidth
MaxHalfWidth == 1

(***************************************************************************)
(* qreal arithmetic on exact rationals.                                    *)
(***************************************************************************)
Abs(i) == IF i < 0 THEN -i ELSE i

RECURSIVE Gcd(_, _)
Gcd(i, j) == IF j = 0 THEN i ELSE Gcd(j, i % j)

Rat(n, d) ==
    LET s == IF d < 0 THEN -1 ELSE 1
        g == Gcd(Abs(n), Abs(d))
    IN  <<(s * n) \div g, (s * d) \div g>>

Zero == Rat(0, 1)
One == Rat(1, 1)
Two == Rat(2, 1)

RAdd(q, r) == Rat(q[1] * r[2] + r[1] * q[2], q[2] * r[2])
RNeg(q) == <<-q[1], q[2]>>
RSub(q, r) == RAdd(q, RNeg(r))
RMul(q, r) == Rat(q[1] * r[1], q[2] * r[2])
RDiv(q, r) == Rat(q[1] * r[2], q[2] * r[1])
RLess(q, r) == q[1] * r[2] < r[1] * q[2]
RLeq(q, r) == q[1] * r[2] <= r[1] * q[2]
RAbs(q) == <<Abs(q[1]), q[2]>>
qMax(q, r) == IF RLess(q, r) THEN r ELSE q
qMin(q, r) == IF RLess(q, r) THEN q ELSE r

\* std::sqrt on the rationals whose root is rational (the only ones the
\* model's points produce).
ISqrt(n) == CHOOSE k \in 0 .. n : k * k = n
IsSquare(n) == \E k \in 0 .. n : k * k = n
RSqrt(q) == <<ISqrt(q[1]), ISqrt(q[2])>>

\* qFuzzyCompare(p1, p2): qAbs(p1 - p2) * 1000000000000. <= qMin(qAbs(p1), qAbs(p2));
\* the factor 10^12 is applied to the floor of the ratio as two factors of 10^6.
qFuzzyCompare(q, r) ==
    LET diff == RAbs(RSub(q, r))
        m == qMin(RAbs(q), RAbs(r))
        ratio == RDiv(m, diff)
    IN  IF diff = Zero THEN TRUE
        ELSE ((ratio[1] \div ratio[2]) \div 1000000) >= 1000000

(***************************************************************************)
(* QPointF / QLineF.                                                       *)
(***************************************************************************)
Pt(x, y) == <<x, y>>
Origin == Pt(Zero, Zero)

QLineF(pt1, pt2) == [p1 |-> pt1, p2 |-> pt2]
dx(l) == RSub(l.p2[1], l.p1[1])
dy(l) == RSub(l.p2[2], l.p1[2])
SqLength(l) == RAdd(RMul(dx(l), dx(l)), RMul(dy(l), dy(l)))
length(l) == RSqrt(SqLength(l))
pointAt(l, t) == Pt(RAdd(l.p1[1], RMul(dx(l), t)), RAdd(l.p1[2], RMul(dy(l), t)))

\* The threshold 0.0001 of Arrow::updateGeometry
MinLength == Rat(1, 10000)

(***************************************************************************)
(* Angles.  An angle is k full turns plus s times acos(c), s in {1, -1},   *)
(* acos(c) being the angle of [0, pi] whose cosine is c; unit is "rad" or  *)
(* "deg".                                                                  *)
(***************************************************************************)
acos(c) == [unit |-> "rad", k |-> 0, s |-> 1, c |-> c]
TwoPiMinus(angle) == [angle EXCEPT !.k = 1 - angle.k, !.s = -angle.s]
ToDegrees(angle) == [angle EXCEPT !.unit = "deg"]
ZeroDegrees == [unit |-> "deg", k |-> 0, s |-> 1, c |-> One]

(***************************************************************************)
(* qgl::Arrow.                                                             *)
(***************************************************************************)
CapStyles == {"NoCap", "ArrowCap", "CircleCap"}
Colors == {"black", "red"}

\* Endpoints: a 3 x 4 rectangle, so that every pair is at distance 0, 3, 4
\* or 5 and the eight directions +-x, +-y and the four diagonals occur.
Points == {Pt(Rat(x, 1), Rat(y, 1)) : x \in {0, 3}, y \in {0, 4}}
CapArgs == {Rat(k, 1) : k \in -1 .. MaxCapSize}
LineWidths == {Rat(2 * k, 1) : k \in 0 .. MaxHalfWidth}

\* A cap item (std::unique_ptr<qgl::ConvexPolygon>): exists = FALSE is the
\* null pointer; the other fields are those the Arrow writes, with the
\* values of a newly made item.
NullItem ==
    [exists |-> FALSE, visible |-> TRUE, borderWidth |-> Zero, polygon |-> <<>>,
     x |-> Zero, y |-> Zero, transformOrigin |-> "Center",
     rotation |-> ZeroDegrees, color |-> "unset"]
NewItem == [NullItem EXCEPT !.exists = TRUE]

\* The polygon of the P1 cap: tip at the origin, base at x = +2 capSize.
P1Polygon(capSize) ==
    LET arrowLength == RMul(capSize, Two)
    IN  << Pt(Zero, Zero),
           Pt(arrowLength, RNeg(capSize)),
           Pt(arrowLength, capSize),
           Pt(Zero, Zero) >>

\* The polygon of the P2 cap: tip at the origin, base at x = -2 capSize.
P2Polygon(capSize) ==
    LET arrowLength == RMul(capSize, Two)
        dst == Pt(RNeg(arrowLength), Zero)
    IN  << Pt(dst[1], RSub(dst[2], capSize)),
           Pt(RAdd(dst[1], arrowLength), dst[2]),
           Pt(dst[1], RAdd(dst[2], capSize)),
           Pt(dst[1], RSub(dst[2], capSize)) >>

\* CapItem with the cap item of a circle cap left as it is.
CapItemCircleShown(style, item, polygon) ==
    CASE style = "NoCap" -> NullItem
      [] style = "ArrowCap" ->
            [(IF item.exists THEN item ELSE NewItem)
                EXCEPT !.visible = TRUE, !.borderWidth = Two, !.polygon = polygon]
      [] style = "CircleCap" -> item

\* One switch of Arrow::updateCapStyle: the cap item of an end from its
\* style, its present item and its polygon.
CapItem(style, item, polygon) ==
    CASE style = "NoCap" -> NullItem
      [] style = "ArrowCap" ->
            [(IF item.exists THEN item ELSE NewItem)
                EXCEPT !.visible = TRUE, !.borderWidth = Two, !.polygon = polygon]
      [] style = "CircleCap" ->
            IF item.exists THEN [item EXCEPT !.visible = FALSE] ELSE item

updateCapStyle(a) ==
    [a EXCEPT !.p1Arrow = CapItem(a.p1CapStyle, a.p1Arrow, P1Polygon(a.p1CapSize)),
              !.p2Arrow = CapItem(a.p2CapStyle, a.p2Arrow, P2Polygon(a.p2CapSize))]

\* CapRotation without the turn of the angles of the upper half plane.
CapRotationNotTurned(line, lineLength) ==
    ToDegrees(acos(RDiv(dx(line), lineLength)))

\* The rotation of a cap, in degrees, from the line p1 -> p2.
CapRotation(line, lineLength) ==
    LET angle == acos(RDiv(dx(line), lineLength))
        turned == IF RLeq(dy(line), Zero) THEN TwoPiMinus(angle) ELSE angle
    IN  ToDegrees(turned)

\* The inner line's ends under an arrow cap.
TruncatedSource(line, lineLength, capSize) ==
    pointAt(line, RDiv(RMul(capSize, Two), lineLength))
\* TruncatedP2 cut by the cap size instead of the arrow length 2 capSize.
TruncatedP2ByCapSize(line, lineLength, capSize) ==
    pointAt(line, RSub(One, RDiv(capSize, lineLength)))
TruncatedP2(line, lineLength, capSize) ==
    pointAt(line, RSub(One, RDiv(RMul(capSize, Two), lineLength)))

\* A cap item placed at an endpoint with a rotation.
PlaceCap(item, p, rotation) ==
    [item EXCEPT !.x = p[1], !.y = p[2],
                 !.transformOrigin = "TopLeft", !.rotation = rotation]

GeometrySkipped(a) ==
    RLess(length(QLineF(a.p1, a.p2)), MinLength)

updateGeometry(a) ==
    LET line == QLineF(a.p1, a.p2)
        lineLength == length(line)
        src == CASE a.p1CapStyle = "NoCap" -> [a EXCEPT !.line.p1 = a.p1]
                 [] a.p1CapStyle = "ArrowCap" ->
                       IF a.p1Arrow.exists
                       THEN [a EXCEPT
                               !.line.p1 = TruncatedSource(line, lineLength, a.p1CapSize),
                               !.p1Arrow = PlaceCap(a.p1Arrow, a.p1,
                                                    CapRotation(line, lineLength))]
                       ELSE a
                 [] a.p1CapStyle = "CircleCap" -> a
        dst == CASE src.p2CapStyle = "NoCap" -> [src EXCEPT !.line.p2 = a.p2]
                 [] src.p2CapStyle = "ArrowCap" ->
                       IF src.p2Arrow.exists
                       THEN [src EXCEPT
                               !.line.p2 = TruncatedP2(line, lineLength, a.p2CapSize),
                               !.p2Arrow = PlaceCap(src.p2Arrow, a.p2,
                                                    CapRotation(line, lineLength))]
                       ELSE src
                 [] src.p2CapStyle = "CircleCap" -> src
    IN  IF GeometrySkipped(a) THEN a ELSE dst

\* Arrow::getLineWidth(): the width last given to the inner line.
getLineWidth(a) == a.line.lineWidth

(***************************************************************************)
(* The setters, as functions of a call context                             *)
(*   x = [a: the Arrow, emitted: the signals emitted so far,               *)
(*        geometry: what the last updateGeometry of the call did].         *)
(***************************************************************************)
Call(a) == [a |-> a, emitted |-> <<>>, geometry |-> "none"]
Emit(x, signal) == [x EXCEPT !.emitted = Append(x.emitted, signal)]
WithCapStyle(x) == [x EXCEPT !.a = updateCapStyle(x.a)]
WithGeometry(x) ==
    [x EXCEPT !.a = updateGeometry(x.a),
              !.geometry = IF GeometrySkipped(x.a) THEN "skipped" ELSE "updated"]

ItemColor(item, color) == IF item.exists THEN [item EXCEPT !.color = color] ELSE item

setColor(x, color) ==
    IF color # x.a.color
    THEN Emit([x EXCEPT !.a.color = color,
                        !.a.line.color = color,
                        !.a.p1Arrow = ItemColor(x.a.p1Arrow, color),
                        !.a.p2Arrow = ItemColor(x.a.p2Arrow, color)],
              "colorChanged")
    ELSE x

setP1(x, p1) == Emit(WithGeometry([x EXCEPT !.a.p1 = p1]), "p1Changed")
setP2(x, p2) == Emit(WithGeometry([x EXCEPT !.a.p2 = p2]), "p2Changed")

setP1CapStyle(x, p1CapStyle) ==
    IF p1CapStyle # x.a.p1CapStyle
    THEN WithGeometry(WithCapStyle(
            Emit([x EXCEPT !.a.p1CapStyle = p1CapStyle], "p1CapStyleChanged")))
    ELSE x

setP2CapStyle(x, p2CapStyle) ==
    IF p2CapStyle # x.a.p2CapStyle
    THEN WithGeometry(WithCapStyle(
            Emit([x EXCEPT !.a.p2CapStyle = p2CapStyle], "p2CapStyleChanged")))
    ELSE x

\* capSize = qMax( getLineWidth() / 2., capSize )
ClampCapSize(a, capSize) == qMax(RDiv(getLineWidth(a), Two), capSize)

\* setP1CapSize without its binding loop protection.
setP1CapSizeUnprotected(x, capSize) ==
    LET c == ClampCapSize(x.a, capSize)
    IN  WithGeometry(WithCapStyle(
            Emit([x EXCEPT !.a.p1CapSize = c], "p1CapSizeChanged")))

setP1CapSize(x, capSize) ==
    LET c == ClampCapSize(x.a, capSize)
    IN  IF ~qFuzzyCompare(RAdd(One, c), RAdd(One, x.a.p1CapSize))
        THEN WithGeometry(WithCapStyle(
                Emit([x EXCEPT !.a.p1CapSize = c], "p1CapSizeChanged")))
        ELSE x

setP2CapSize(x, capSize) ==
    LET c == ClampCapSize(x.a, capSize)
    IN  IF ~qFuzzyCompare(RAdd(One, c), RAdd(One, x.a.p2CapSize))
        THEN WithGeometry(WithCapStyle(
                Emit([x EXCEPT !.a.p2CapSize = c], "p2CapSizeChanged")))
        ELSE x

setLineWidth(x, lineWidth) ==
    LET half == RDiv(lineWidth, Two)
        x0 == [x EXCEPT !.a.line.lineWidth = lineWidth]
        x1 == IF RLess(x0.a.p2CapSize, half) THEN setP2CapSize(x0, half) ELSE x0
        x2 == IF RLess(x1.a.p1CapSize, half) THEN setP1CapSize(x1, half) ELSE x1
    IN  Emit(x2, "lineWidthChanged")

(***************************************************************************)
(* The Arrow after construction.  qglArrow.h, which holds the member       *)
(* initialisers, is not among the sources: the defaults are any values of  *)
(* the model's domains that the setters can also produce (a cap size is    *)
(* at least half the line width), with both endpoints at the origin.       *)
(***************************************************************************)
StoredCapSizes == {Rat(k, 1) : k \in 0 .. MaxCapSize}

ArrowDefaults(capStyles, colors) ==
    { a \in
        { [color |-> c, p1 |-> Origin, p2 |-> Origin,
           p1CapStyle |-> s1, p2CapStyle |-> s2, p1CapSize |-> c1, p2CapSize |-> c2,
           line |-> [p1 |-> Origin, p2 |-> Origin, color |-> "unset", lineWidth |-> w],
           p1Arrow |-> NullItem, p2Arrow |-> NullItem] :
            c \in colors, s1 \in capStyles, s2 \in capStyles,
            c1 \in StoredCapSizes, c2 \in StoredCapSizes, w \in LineWidths } :
        /\ RLeq(RDiv(a.line.lineWidth, Two), a.p1CapSize)
        /\ RLeq(RDiv(a.line.lineWidth, Two), a.p2CapSize) }

\* Arrow::Arrow: the inner line is made and updateCapStyle() creates the caps.
ArrowInit(capStyles, colors) ==
    /\ arrow \in {updateCapStyle(a) : a \in ArrowDefaults(capStyles, colors)}
    /\ emitted = <<>>
    /\ last = [geometry |-> "none", same |-> FALSE]

\* One call of a setter: r is the call context it ends in; same says that it
\* is a setter with binding loop protection called with the stored value.
ArrowStep(r, same) ==
    /\ arrow' = r.a
    /\ emitted' = r.emitted
    /\ last' = [geometry |-> r.geometry, same |-> same]
    /\ UNCHANGED nodeVars

SetColor ==
    \E color \in Colors :
        ArrowStep(setColor(Call(arrow), color), color = arrow.color)

\* The endpoints are drawn so that the line has a rational length, and are
\* kept apart once the line has been given a length.
SetP1(points) ==
    \E p1 \in points :
        /\ p1 # arrow.p2
        /\ IsSquare(SqLength(QLineF(p1, arrow.p2))[1])
        /\ IsSquare(SqLength(QLineF(p1, arrow.p2))[2])
        /\ ArrowStep(setP1(Call(arrow), p1), FALSE)

SetP2(points) ==
    \E p2 \in points :
        /\ p2 # arrow.p1
        /\ IsSquare(SqLength(QLineF(arrow.p1, p2))[1])
        /\ IsSquare(SqLength(QLineF(arrow.p1, p2))[2])
        /\ ArrowStep(setP2(Call(arrow), p2), FALSE)

SetLineWidth ==
    \E lineWidth \in LineWidths :
        ArrowStep(setLineWidth(Call(arrow), lineWidth), FALSE)

SetP1CapStyle(capStyles) ==
    \E p1CapStyle \in capStyles :
        ArrowStep(setP1CapStyle(Call(arrow), p1CapStyle),
                  p1CapStyle = arrow.p1CapStyle)

SetP2CapStyle(capStyles) ==
    \E p2CapStyle \in capStyles :
        ArrowStep(setP2CapStyle(Call(arrow), p2CapStyle),
                  p2CapStyle = arrow.p2CapStyle)

SetP1CapSize ==
    \E capSize \in CapArgs :
        ArrowStep(setP1CapSize(Call(arrow), capSize),
                  ClampCapSize(arrow, capSize) = arrow.p1CapSize)

SetP2CapSize ==
    \E capSize \in CapArgs :
        ArrowStep(setP2CapSize(Call(arrow), capSize),
                  ClampCapSize(arrow, capSize) = arrow.p2CapSize)

(***************************************************************************)
(* qan::Node: the members and inline setters of qanNode.h.                 *)
(***************************************************************************)
Null == "nullptr"
DefaultStyle == "defaultStyle"
UserStyles == {"style1", "style2"}
Labels == {"", "label"}
MinimumSizes == {<<100, 45>>, <<50, 20>>}
BoundingShapes == {<<>>, <<Pt(0, 0), Pt(10, 0), Pt(10, 10), Pt(0, 0)>>}

\* NodeDefaults with _dragActive initialised to true.
NodeDefaultsDragged ==
    [minimumSize |-> <<100, 45>>,
     selectable |-> TRUE,
     selected |-> FALSE,
     draggable |-> TRUE,
     dropable |-> TRUE,
     acceptDrops |-> TRUE,
     dragActive |-> TRUE,
     style |-> Null,
     label |-> "",
     boundingShape |-> <<>>,
     itemAcceptsDrops |-> FALSE]

\* The in-class member initialisers of qan::Node; itemAcceptsDrops is the
\* QQuickItem::ItemAcceptsDrops flag of the item, style the QPointer _style.
NodeDefaults ==
    [minimumSize |-> <<100, 45>>,
     selectable |-> TRUE,
     selected |-> FALSE,
     draggable |-> TRUE,
     dropable |-> TRUE,
     acceptDrops |-> TRUE,
     dragActive |-> FALSE,
     style |-> Null,
     label |-> "",
     boundingShape |-> <<>>,
     itemAcceptsDrops |-> FALSE]

getStyle(n) == n.style
getAcceptDrops(n) == n.acceptDrops

\* Node::Node (qanNode.cpp, not among the sources): the node gets its
\* default style; whether the constructor sets the ItemAcceptsDrops flag is
\* left open.
NodeConstructed ==
    { [NodeDefaults EXCEPT !.style = DefaultStyle, !.itemAcceptsDrops = f] :
        f \in BOOLEAN }

setMinimumSize(n, minimumSize) == [n EXCEPT !.minimumSize = minimumSize]
setDraggable(n, draggable) == [n EXCEPT !.draggable = draggable]
setDropable(n, dropable) == [n EXCEPT !.dropable = dropable]
\* setAcceptDrops without the setFlag call.
setAcceptDropsNoFlag(n, acceptDrops) == [n EXCEPT !.acceptDrops = acceptDrops]
setAcceptDrops(n, acceptDrops) ==
    [n EXCEPT !.acceptDrops = acceptDrops, !.itemAcceptsDrops = acceptDrops]
setDragActive(n, dragActive) == [n EXCEPT !.dragActive = dragActive]
setLabel(n, label) == [n EXCEPT !.label = label]
setBoundingShape(n, boundingShape) == [n EXCEPT !.boundingShape = boundingShape]

\* Node::setStyle (qanNode.cpp, not among the sources): a null style stands
\* for the default style.
setStyle(n, style) ==
    [n EXCEPT !.style = IF style = Null THEN DefaultStyle ELSE style]

\* styleDestroyed leaving the node with the null QPointer.
styleDestroyedKeepsNull(n, style) == [n EXCEPT !.style = Null]

\* Node::styleDestroyed (qanNode.cpp, not among the sources), run when the
\* style of the node is destroyed: the QPointer _style is null by then, and
\* the node takes its default style.
styleDestroyed(n, style) ==
    IF style # Null /\ style # DefaultStyle
    THEN setStyle([n EXCEPT !.style = Null], DefaultStyle)
    ELSE n

NodeInit ==
    /\ node \in NodeConstructed
    /\ styles = UserStyles
    /\ nodeHist = [op |-> "Node", signal |-> "", acceptDropsSet |-> FALSE]

NodeStep(op, n, signal) ==
    /\ node' = n
    /\ nodeHist' = [op |-> op, signal |-> signal,
                    acceptDropsSet |-> nodeHist.acceptDropsSet \/ op = "setAcceptDrops"]
    /\ UNCHANGED arrowVars

SetMinimumSize ==
    \E minimumSize \in MinimumSizes :
        /\ NodeStep("setMinimumSize", setMinimumSize(node, minimumSize),
                    "minimumSizeChanged")
        /\ UNCHANGED styles

SetDraggable ==
    \E draggable \in BOOLEAN :
        /\ NodeStep("setDraggable", setDraggable(node, draggable), "draggableChanged")
        /\ UNCHANGED styles

SetDropable ==
    \E dropable \in BOOLEAN :
        /\ NodeStep("setDropable", setDropable(node, dropable), "dropableChanged")
        /\ UNCHANGED styles

SetAcceptDrops ==
    \E acceptDrops \in BOOLEAN :
        /\ NodeStep("setAcceptDrops", setAcceptDrops(node, acceptDrops),
                    "acceptDropsChanged")
        /\ UNCHANGED styles

SetDragActive ==
    \E dragActive \in BOOLEAN :
        /\ NodeStep("setDragActive", setDragActive(node, dragActive),
                    "dragActiveChanged")
        /\ UNCHANGED styles

SetLabel ==
    \E label \in Labels :
        /\ NodeStep("setLabel", setLabel(node, label), "labelChanged")
        /\ UNCHANGED styles

SetBoundingShape ==
    \E boundingShape \in BoundingShapes :
        /\ NodeStep("setBoundingShape", setBoundingShape(node, boundingShape),
                    "boundingShapeChanged")
        /\ UNCHANGED styles

SetStyle ==
    \E style \in styles \cup {Null} :
        /\ NodeStep("setStyle", setStyle(node, style), "styleChanged")
        /\ UNCHANGED styles

\* The application destroys one of its styles; the node's slot runs when
\* the style is the node's.
DestroyStyle ==
    \E style \in styles :
        /\ styles' = styles \ {style}
        /\ IF node.style = style
           THEN NodeStep("styleDestroyed", styleDestroyed(node, style), "styleChanged")
           ELSE UNCHANGED <<node, nodeHist, arrowVars>>

NodeNext ==
    \/ SetMinimumSize
    \/ SetDraggable
    \/ SetDropable
    \/ SetAcceptDrops
    \/ SetDragActive
    \/ SetLabel
    \/ SetBoundingShape
    \/ SetStyle
    \/ DestroyStyle

(***************************************************************************)
(* Specifications: Spec and CapSpec run the Arrow's setters on a           *)
(* constructed Arrow, NodeSpec the Node's setters on a constructed Node.   *)
(***************************************************************************)
NodeIdle ==
    /\ node = [NodeDefaults EXCEPT !.style = DefaultStyle]
    /\ styles = UserStyles
    /\ nodeHist = [op |-> "Node", signal |-> "", acceptDropsSet |-> FALSE]

ArrowIdle ==
    /\ arrow = updateCapStyle(CHOOSE a \in ArrowDefaults({"NoCap"}, {"black"}) : TRUE)
    /\ emitted = <<>>
    /\ last = [geometry |-> "none", same |-> FALSE]

\* Spec: the geometry of the Arrow.  Endpoints over the whole rectangle, the
\* supported cap styles NoCap and ArrowCap, the two colours.
GeometryCapStyles == {"NoCap", "ArrowCap"}

Init == ArrowInit(GeometryCapStyles, Colors) /\ NodeIdle

Next ==
    \/ SetColor
    \/ SetP1(Points)
    \/ SetP2(Points)
    \/ SetLineWidth
    \/ SetP1CapStyle(GeometryCapStyles)
    \/ SetP2CapStyle(GeometryCapStyles)
    \/ SetP1CapSize
    \/ SetP2CapSize

Spec == Init /\ [][Next]_vars

\* CapSpec: the cap items of the Arrow.  The three cap styles, the two
\* colours on an Arrow constructed black, endpoints on one horizontal line.
LinePoints == {Pt(Rat(x, 1), Zero) : x \in {0, 3}}

CapInit == ArrowInit(CapStyles, {"black"}) /\ NodeIdle

CapNext ==
    \/ SetColor
    \/ SetP1(LinePoints)
    \/ SetP2(LinePoints)
    \/ SetLineWidth
    \/ SetP1CapStyle(CapStyles)
    \/ SetP2CapStyle(CapStyles)
    \/ SetP1CapSize
    \/ SetP2CapSize

CapSpec == CapInit /\ [][CapNext]_vars

\* NodeSpec: the setters of the Node.
NodeSpecInit == NodeInit /\ ArrowIdle

NodeSpec == NodeSpecInit /\ [][NodeNext]_vars

(***************************************************************************)
(* Properties.                                                             *)
(***************************************************************************)
ArrowLine == QLineF(arrow.p1, arrow.p2)
ArrowLength == length(ArrowLine)
\* u, the unit vector from p1 to p2
UnitX == RDiv(dx(ArrowLine), ArrowLength)
UnitY == RDiv(dy(ArrowLine), ArrowLength)
P1IsArrowCap == arrow.p1CapStyle = "ArrowCap" /\ arrow.p1Arrow.exists
P2IsArrowCap == arrow.p2CapStyle = "ArrowCap" /\ arrow.p2Arrow.exists
ItemAt(item, p) == item.x = p[1] /\ item.y = p[2]
Diagonal == dx(ArrowLine) # Zero /\ dy(ArrowLine) # Zero

\* C1: after updateGeometry on a line of length >= 0.0001, the inner line
\* ends at p1 + 2 p1CapSize u under an arrow cap at P1 and at
\* p2 - 2 p2CapSize u under an arrow cap at P2, u the unit vector from p1 to
\* p2, the cap item sitting at the untruncated endpoint; at an end without
\* cap the inner line ends at the endpoint itself.
C1_InnerLineEnds ==
    last.geometry = "updated" =>
        /\ P1IsArrowCap =>
            /\ arrow.line.p1 =
                 Pt(RAdd(arrow.p1[1], RMul(RMul(Two, arrow.p1CapSize), UnitX)),
                    RAdd(arrow.p1[2], RMul(RMul(Two, arrow.p1CapSize), UnitY)))
            /\ ItemAt(arrow.p1Arrow, arrow.p1)
        /\ P2IsArrowCap =>
            /\ arrow.line.p2 =
                 Pt(RSub(arrow.p2[1], RMul(RMul(Two, arrow.p2CapSize), UnitX)),
                    RSub(arrow.p2[2], RMul(RMul(Two, arrow.p2CapSize), UnitY)))
            /\ ItemAt(arrow.p2Arrow, arrow.p2)
        /\ arrow.p1CapStyle = "NoCap" => arrow.line.p1 = arrow.p1
        /\ arrow.p2CapStyle = "NoCap" => arrow.line.p2 = arrow.p2

\* An oblique line with an arrow cap of size 1 at each end, just updated.
C1_Witness ==
    /\ last.geometry = "updated"
    /\ Diagonal
    /\ P1IsArrowCap /\ arrow.p1CapSize = One
    /\ P2IsArrowCap /\ arrow.p2CapSize = One

\* The cosine and the sine of an angle k turns + s acos(c).
Cos(angle) == angle.c
Sin(angle) == RMul(Rat(angle.s, 1), RSqrt(RSub(One, RMul(angle.c, angle.c))))
\* 0 <= angle < 360 degrees: acos(c) is in [0, 180], 0 for c = 1 only.
InZeroTo360(angle) ==
    \/ angle.k = 0 /\ angle.s = 1
    \/ angle.k = 0 /\ angle.s = -1 /\ angle.c = One
    \/ angle.k = 1 /\ angle.s = -1 /\ angle.c # One
\* 0 < angle <= 360 degrees
InAbove0To360(angle) ==
    \/ angle.k = 0 /\ angle.s = 1 /\ angle.c # One
    \/ angle.k = 1 /\ angle.s = -1
\* the angle, in degrees, whose cosine is dx/len and whose sine is dy/len
IsTheta(angle) ==
    /\ angle.unit = "deg"
    /\ Cos(angle) = UnitX
    /\ Sin(angle) = UnitY
\* the rotations of the arrow cap items
ArrowCapRotations ==
    (IF P1IsArrowCap THEN {arrow.p1Arrow.rotation} ELSE {})
        \cup (IF P2IsArrowCap THEN {arrow.p2Arrow.rotation} ELSE {})

\* C2 as claimed: after updateGeometry on a line of length >= 0.0001 every
\* arrow cap item has the same rotation, the angle theta in degrees with
\* cos theta = dx/len and sin theta = dy/len, and 0 <= theta < 360.
C2_RotationBelow360 ==
    last.geometry = "updated" =>
        /\ Cardinality(ArrowCapRotations) <= 1
        /\ \A r \in ArrowCapRotations : IsTheta(r) /\ InZeroTo360(r)

\* C2 as amended: after updateGeometry on a line of length >= 0.0001 every
\* arrow cap item has the same rotation, the angle theta in degrees with
\* cos theta = dx/len and sin theta = dy/len, and 0 < theta <= 360: the
\* direction of the +x axis gets 360, not 0.
C2_RotationUpTo360 ==
    last.geometry = "updated" =>
        /\ Cardinality(ArrowCapRotations) <= 1
        /\ \A r \in ArrowCapRotations : IsTheta(r) /\ InAbove0To360(r)

\* A line along the +x axis with an arrow cap at each end, just updated:
\* the caps are rotated by a full turn.
C2_Witness ==
    /\ last.geometry = "updated"
    /\ P1IsArrowCap /\ P2IsArrowCap
    /\ dy(ArrowLine) = Zero /\ RLess(Zero, dx(ArrowLine))
    /\ arrow.p1Arrow.rotation = [unit |-> "deg", k |-> 1, s |-> -1, c |-> One]

\* C3 as claimed: after setP1CapSize(c) or setP2CapSize(c) the stored cap
\* size of that end is not smaller than the line width.
C3_CapSizeNotBelowLineWidth ==
    [][ /\ SetP1CapSize => ~RLess(arrow'.p1CapSize, getLineWidth(arrow'))
        /\ SetP2CapSize => ~RLess(arrow'.p2CapSize, getLineWidth(arrow')) ]_vars

\* C4: a call of setColor, setP1CapStyle, setP2CapStyle, setP1CapSize or
\* setP2CapSize with the stored value (for the cap sizes: an argument whose
\* maximum with lineWidth/2 is the stored cap size) emits no signal and
\* leaves the Arrow, its inner line and its cap items as they were.
C4_BindingLoopProtection ==
    [][ last'.same => (emitted' = <<>> /\ arrow' = arrow) ]_vars

\* A setter was called with the stored value on an arrow that has a length
\* and a cap item.
C4_Witness ==
    /\ last.same
    /\ emitted = <<>>
    /\ arrow.p1 # arrow.p2
    /\ P2IsArrowCap

\* the vertices of a closed triangle with its tip at the origin and its base,
\* of half-height capSize, at x = side * 2 capSize
IsCapTriangle(polygon, capSize, side) ==
    LET baseX == RMul(Rat(side * 2, 1), capSize)
    IN  /\ Len(polygon) = 4
        /\ polygon[1] = polygon[4]
        /\ {polygon[i] : i \in 1 .. 3} =
              {Pt(Zero, Zero), Pt(baseX, RNeg(capSize)), Pt(baseX, capSize)}

CapLifecycle(style, item, capSize, side) ==
    /\ style = "NoCap" => ~item.exists
    /\ style = "ArrowCap" =>
          item.exists /\ item.visible /\ IsCapTriangle(item.polygon, capSize, side)
    /\ style = "CircleCap" => (~item.exists \/ ~item.visible)

\* C8: in every state, at each end: NoCap means no cap item; ArrowCap means
\* a visible cap item whose polygon is the triangle of the current cap size
\* (on the +x side at P1, on the -x side at P2); CircleCap means no cap item
\* or an invisible one.
C8_CapLifecycle ==
    /\ CapLifecycle(arrow.p1CapStyle, arrow.p1Arrow, arrow.p1CapSize, 1)
    /\ CapLifecycle(arrow.p2CapStyle, arrow.p2Arrow, arrow.p2CapSize, -1)

\* An arrow cap of size 1 at P1 and, at P2, a circle cap that keeps the item
\* of an earlier arrow cap, hidden.
C8_Witness ==
    /\ arrow.p1CapStyle = "ArrowCap" /\ arrow.p1CapSize = One
    /\ arrow.p1Arrow.polygon[2] = Pt(Two, RNeg(One))
    /\ arrow.p2CapStyle = "CircleCap" /\ arrow.p2Arrow.exists
    /\ arrow.p1 # arrow.p2

Cross(o, p, q) ==
    RSub(RMul(RSub(p[1], o[1]), RSub(q[2], o[2])),
         RMul(RSub(p[2], o[2]), RSub(q[1], o[1])))
Dot(o, p, q) ==
    RAdd(RMul(RSub(p[1], o[1]), RSub(q[1], o[1])),
         RMul(RSub(p[2], o[2]), RSub(q[2], o[2])))
\* q is on the closed segment [arrow.p1, arrow.p2]
OnArrowSegment(q) ==
    /\ Cross(arrow.p1, arrow.p2, q) = Zero
    /\ RLeq(Zero, Dot(arrow.p1, arrow.p2, q))
    /\ RLeq(Dot(arrow.p1, arrow.p2, q), SqLength(ArrowLine))

\* C9 as claimed: after updateGeometry on a line of length >= 0.0001 both
\* ends of the inner line are on the segment [p1, p2] and the inner line's
\* P1 is not further from p1 than its P2.
C9_InnerLineInsideSegment ==
    last.geometry = "updated" =>
        /\ OnArrowSegment(arrow.line.p1)
        /\ OnArrowSegment(arrow.line.p2)
        /\ RLeq(Dot(arrow.p1, arrow.p2, arrow.line.p1),
                Dot(arrow.p1, arrow.p2, arrow.line.p2))

\* C5: getStyle() never returns null.
C5_StyleNeverNull == getStyle(node) # Null

\* The style of the node has been destroyed.
C5_Witness == nodeHist.op = "styleDestroyed" /\ getStyle(node) = DefaultStyle

\* C6: a constructed Node on which no setter has been called is draggable,
\* dropable, accepts drops, is selectable, not selected, not dragged, and has
\* an empty label and the minimum size 100 x 45.
C6_ConstructedDefaults ==
    nodeHist.op = "Node" =>
        /\ node.draggable = TRUE
        /\ node.dropable = TRUE
        /\ getAcceptDrops(node) = TRUE
        /\ node.selectable = TRUE
        /\ node.selected = FALSE
        /\ node.dragActive = FALSE
        /\ node.label = ""
        /\ node.minimumSize = <<100, 45>>

\* The constructed Node, with its own style.
C6_Witness == nodeHist.op = "Node" /\ getStyle(node) = DefaultStyle

OtherSetters ==
    {"setDraggable", "setDropable", "setDragActive", "setLabel",
     "setMinimumSize", "setBoundingShape"}

\* C7: once setAcceptDrops has been called, the ItemAcceptsDrops flag is set
\* exactly when getAcceptDrops() is true, and setDraggable, setDropable,
\* setDragActive, setLabel, setMinimumSize and setBoundingShape change neither.
C7_AcceptDropsFlag ==
    /\ [](nodeHist.acceptDropsSet => (node.itemAcceptsDrops <=> getAcceptDrops(node)))
    /\ [][ nodeHist'.op \in OtherSetters =>
             /\ node'.itemAcceptsDrops = node.itemAcceptsDrops
             /\ getAcceptDrops(node') = getAcceptDrops(node) ]_vars

\* Drops were switched off, and another setter was called since.
C7_Witness ==
    /\ nodeHist.acceptDropsSet
    /\ nodeHist.op = "setDraggable"
    /\ ~getAcceptDrops(node)
    /\ ~node.itemAcceptsDrops

====
